---- MODULE Spec2Model ----
(***************************************************************************)
(* A state-machine model of belgian_cgt.py: the FIFO lot ledger, wash-sale *)
(* deferral, the indexed exemption tracker, the exit tax and the annual    *)
(* orchestrator.                                                           *)
(*                                                                         *)
(* Representation.  Money is fixed point, in mills (1/1000 euro); a float  *)
(* division is the quotient rounded to the nearest mill.  A date is a day  *)
(* number, day 0 being 2026-01-01.  A rate is an integer numerator over    *)
(* the denominator written next to it.  A lot object is named by the       *)
(* position, in the sorted transaction list, of the BUY it is attached to. *)
(* A dict is a function whose DOMAIN is its key set; an argument left at   *)
(* its default None is named in the set `defaulted`.                       *)
(***************************************************************************)
EXTENDS Integers, Sequences, FiniteSets, TLC

\* ------------------------------------------------------------------------
\* Arithmetic helpers
\* ------------------------------------------------------------------------
Min(a, b) == IF a <= b THEN a ELSE b
Max(a, b) == IF a >= b THEN a ELSE b
Abs(a) == IF a < 0 THEN -a ELSE a

\* a / b for b > 0, to the nearest unit (a tie goes up).
RDiv(a, b) == (2 * a + b) \div (2 * b)

\* a * b / d to the nearest unit, for a, b >= 0 and d > 0, computed without
\* forming a * b (which would overflow 32-bit integer arithmetic).
MulDiv(a, b, d) == (a \div d) * b + RDiv((a % d) * b, d)

\* Python round(x, 2) of an amount given in units of 1/100000 euro, returned
\* in mills: to the nearest cent, a tie to the even cent.
Round2(x) ==
    LET q == x \div 1000
        r == x % 1000
        cents == IF r > 500 \/ (r = 500 /\ q % 2 = 1) THEN q + 1 ELSE q
    IN  10 * cents

RECURSIVE SumSeq(_)
SumSeq(s) == IF s = <<>> THEN 0 ELSE Head(s) + SumSeq(Tail(s))

\* dict.get(key, default)
Get(d, k, default) == IF k \in DOMAIN d THEN d[k] ELSE default

\* ------------------------------------------------------------------------
\* Tax regime constants
\* ------------------------------------------------------------------------
CGT_RATE == 10                  \* per 100
INTEREST_RATE == 30             \* per 100
TOB_RATES == [standard |-> 35, fund |-> 132, other |-> 12]   \* per 10000
CUTOFF_DATE == 0                \* 2026-01-01
CUTOFF_YEAR == 2026
BASE_EXEMPTION_2026 == 10000000 \* 10 000 euro
MAX_EXEMPTION_2026 == 15000000  \* 15 000 euro
CARRY_INCREMENT == 1000000      \* 1 000 euro
WASH_WINDOW_DAYS == 30
BASE_CPI == 1281                \* 128.10, in tenths of an index point
CPI == (2025 :> 1281) @@ (2026 :> 1312) @@ (2027 :> 1345) @@ (2028 :> 1380)

\* tx.date.year, for the dates the model uses (2028 is a leap year).
YearOf(d) ==
    IF d < 0 THEN 2025
    ELSE IF d < 365 THEN 2026
    ELSE IF d < 730 THEN 2027
    ELSE IF d < 1096 THEN 2028
    ELSE 2029

days_between(d1, d2) == d1 - d2

\* ------------------------------------------------------------------------
\* Security similarity
\* ------------------------------------------------------------------------
\* hash(frozenset(...)) is modelled by the set itself: equal exactly when
\* the holdings sets are equal (hash collisions are not modelled).
similarity_key(info) ==
    IF info.benchmark_id # ""
    THEN <<"BMK", info.benchmark_id, {}>>
    ELSE <<"FP", "", info.top_holdings>>

\* ------------------------------------------------------------------------
\* Exemption tracker (pure parts; the carry is the variable `carry`)
\* ------------------------------------------------------------------------
_indexed(amount, year) == MulDiv(amount, CPI[year], BASE_CPI)

per_person_cap(year) == _indexed(MAX_EXEMPTION_2026, year)

annual_base(year) == _indexed(BASE_EXEMPTION_2026, year)

\* clamp_carry with the assignment to carry lost.
clamp_carry_lost(c, year) == c

\* The carry clamp_carry(year) leaves, from the carry c it finds.
clamp_carry(c, year) ==
    LET max_carry == per_person_cap(year) - annual_base(year)
    IN  Min(c, max_carry)

\* available(year, marital): the value returned and the carry left behind.
available(c, year, marital) ==
    LET clamped == clamp_carry(c, year)
        per_person_total == Min(annual_base(year) + clamped, per_person_cap(year))
        multiplier == IF marital = "couple" THEN 2 ELSE 1
    IN  [value |-> per_person_total * multiplier, carry |-> clamped]

\* update_carry without the limit CARRY_INCREMENT on the increment.
update_carry_unlimited(c, unused, year) ==
    LET max_carry_next_year == per_person_cap(year + 1) - annual_base(year + 1)
        increment == Min(unused, max_carry_next_year - c)
    IN  Min(c + increment, max_carry_next_year)

\* The carry update_carry(unused, year) leaves, from the carry c it finds.
update_carry(c, unused, year) ==
    LET max_carry_next_year == per_person_cap(year + 1) - annual_base(year + 1)
        increment == Min(Min(CARRY_INCREMENT, unused), max_carry_next_year - c)
    IN  Min(c + increment, max_carry_next_year)

\* ------------------------------------------------------------------------
\* Inputs
\* ------------------------------------------------------------------------
MaxTx == 4          \* longest transaction list supplied to a run
MaxCalls == 8       \* longest sequence of direct tracker calls

\* Assets X and Y track the same benchmark; Z has no benchmark.
SecInfo(asset) ==
    IF asset = "Z"
    THEN [benchmark_id |-> "", top_holdings |-> {"H1", "H2"}]
    ELSE [benchmark_id |-> "IDX", top_holdings |-> {}]

\* A lot as the ingestion layer attaches it to a BUY.  calculate_exit_tax
\* reads lot.cost where realised_gain reads and writes
\* lot.cost_basis_per_unit: the lot carries both attributes, equal when the
\* lot is built.
NewLot(qty, basis, acquired) ==
    [qty |-> qty, cost_basis_per_unit |-> basis, cost |-> basis, acquired |-> acquired]

BuyTx(asset, date, qty, price, acquired) ==
    [type |-> "BUY", date |-> date, asset_id |-> asset, qty |-> qty,
     price_per_unit |-> price, tob_regime |-> "standard",
     security_info |-> SecInfo(asset), lot |-> NewLot(qty, price, acquired)]

SellTx(asset, date, qty, price, regime) ==
    [type |-> "SELL", date |-> date, asset_id |-> asset, qty |-> qty,
     price_per_unit |-> price, tob_regime |-> regime,
     security_info |-> SecInfo(asset)]

\* The transaction records a run's input is drawn from.
\* 2026-01-05 = day 4, 2026-02-01 = day 31, 2026-02-20 = day 50.
TxPool ==
    { BuyTx("X", 4, 10, 100000, 4),               \* buy 10 @100 on 2026-01-05
      SellTx("X", 31, 10, 90000, "standard"),     \* sell 10 @90 on 2026-02-01
      BuyTx("X", 50, 5, 95000, 50),               \* buy 5 @95 on 2026-02-20
      BuyTx("X", 0, 10, 100000, -200),            \* 2026-01-01, lot acquired in 2025
      SellTx("X", 61, 5, 120000, "standard"),     \* sell 5 @120 on 2026-03-03
      BuyTx("Y", 61, 10, 50000, 61),              \* buy 10 Y @50 on 2026-03-03
      BuyTx("X", -5, 10, 100000, -5),             \* a purchase on 2025-12-27
      SellTx("X", 20, 5, 90000, "other"),         \* sell 5 @90 on 2026-01-21
      SellTx("X", 400, 10, 2000000, "fund")       \* 2027 bond-fund sale
          @@ [interest_component |-> 50000],
      SellTx("Y", 62, 5, 90000, "exempt"),        \* unknown TOB regime
      [type |-> "DIVIDEND", date |-> 40, asset_id |-> "X", qty |-> 1,
       price_per_unit |-> 1000, tob_regime |-> "standard",
       security_info |-> SecInfo("X")],
      BuyTx("Z", 40, 5, 95000, 40) }

Range(s) == {s[k] : k \in DOMAIN s}

RECURSIVE InjSeqs(_)
InjSeqs(n) ==
    IF n = 0 THEN {<<>>}
    ELSE LET shorter == InjSeqs(n - 1)
         IN  shorter \cup {Append(s, p) : s \in shorter, p \in TxPool}

\* The transaction lists a caller may supply: up to MaxTx distinct records.
TxInputs == {s \in InjSeqs(MaxTx) : Cardinality(Range(s)) = Len(s)}

\* sort_by_date: a stable sort on tx.date (insertion of each record after
\* the records already placed whose date is not later).
RECURSIVE InsertByDate(_, _)
InsertByDate(sorted, tx) ==
    IF sorted = <<>> THEN <<tx>>
    ELSE IF tx.date < sorted[Len(sorted)].date
         THEN Append(InsertByDate(SubSeq(sorted, 1, Len(sorted) - 1), tx),
                     sorted[Len(sorted)])
         ELSE Append(sorted, tx)

RECURSIVE sort_by_date(_)
sort_by_date(s) ==
    IF s = <<>> THEN <<>>
    ELSE InsertByDate(sort_by_date(SubSeq(s, 1, Len(s) - 1)), s[Len(s)])

EmptyDict == [k \in {} |-> 0]

Home == "BE"

\* residency_status arguments (year -> country code).
ResidencyInputs ==
    { EmptyDict,
      (2027 :> "FR"),
      (2026 :> "BE") @@ (2027 :> "FR"),
      (2027 :> "BE") @@ (2028 :> "FR"),
      (2024 :> "BE") }

\* fmv_on_date arguments: exit date (the year of its 31 December) -> asset
\* -> price per unit.
FmvInputs ==
    { EmptyDict,
      (2026 :> EmptyDict),
      (2026 :> (("X" :> 80000) @@ ("Y" :> 80000))),
      (2026 :> (("X" :> 130000) @@ ("Y" :> 80000)))
          @@ (2027 :> ("X" :> 130000)) }

\* Contents of the module-level step-up table FMV_31DEC2025.
StepUpInputs == { EmptyDict, ("X" :> 120000) }

\* ------------------------------------------------------------------------
\* State
\* ------------------------------------------------------------------------
VARIABLES
    txs,                      \* sort_by_date(transactions)
    marital,                  \* 'single' | 'couple'
    residency_status,         \* year -> country code
    fmv_on_date,              \* exit date -> asset -> price
    defaulted,                \* the arguments left at their default None
    FMV_31DEC2025,            \* asset -> step-up price
    lot,                      \* lot id -> the lot object attached to that BUY
    portfolio,                \* asset -> sequence of lot ids (a defaultdict)
    realised_gains_by_year,   \* defaultdict(float)
    interest_income_by_year,  \* defaultdict(float)
    tax_due_by_year,          \* defaultdict(float)
    carry,                    \* ExemptionTracker.carry
    pc,                       \* position in belgian_cgt
    i,                        \* index into txs of the next transaction
    all_years,                \* the sorted years of phase 2
    yi,                       \* index into all_years of the current year
    unused_exemption,         \* local of the phase-2 loop
    exit_tax_amount,          \* local of the phase-2 loop (last exit tax)
    exit_taxed,               \* years whose tax received an exit tax
    status,                   \* "running", "returned" or the exception raised
    call,                     \* the last ExemptionTracker call
    ncalls,                   \* number of direct tracker calls made
    run,                      \* 1 for the first run on the records, 2 for the second
    first_result              \* outcome of the first run

vars == <<txs, marital, residency_status, fmv_on_date, defaulted, FMV_31DEC2025,
          lot, portfolio, realised_gains_by_year, interest_income_by_year,
          tax_due_by_year, carry, pc, i, all_years, yi, unused_exemption,
          exit_tax_amount, exit_taxed, status, call, ncalls, run, first_result>>

inputs == <<txs, marital, residency_status, fmv_on_date, defaulted, FMV_31DEC2025>>

Assets == {"X", "Y", "Z"}

NoCall == [op |-> "none", year |-> 0, carry_in |-> 0]

\* The lot objects attached to the BUY records of a sorted list.
LotsOf(sorted) ==
    [k \in {j \in DOMAIN sorted : sorted[j].type = "BUY"} |-> sorted[k].lot]

\* The locals of belgian_cgt as lines 236-240 leave them.
FreshRun ==
    /\ portfolio = EmptyDict
    /\ realised_gains_by_year = EmptyDict
    /\ interest_income_by_year = EmptyDict
    /\ tax_due_by_year = EmptyDict
    /\ carry = 0
    /\ pc = "tx"
    /\ i = 1
    /\ all_years = <<>>
    /\ yi = 1
    /\ unused_exemption = 0
    /\ exit_tax_amount = 0
    /\ exit_taxed = {}
    /\ status = "running"
    /\ call = NoCall

Init ==
    /\ txs \in {sort_by_date(s) : s \in TxInputs}
    /\ marital \in {"single", "couple"}
    /\ defaulted \in SUBSET {"residency_status", "fmv_on_date"}
    /\ residency_status \in IF "residency_status" \in defaulted
                            THEN {EmptyDict} ELSE ResidencyInputs
    /\ fmv_on_date \in IF "fmv_on_date" \in defaulted
                       THEN {EmptyDict} ELSE FmvInputs
    /\ FMV_31DEC2025 \in StepUpInputs
    /\ lot = LotsOf(txs)
    /\ FreshRun
    /\ ncalls = 0
    /\ run = 1
    /\ first_result = [status |-> "none", tax_due_by_year |-> EmptyDict]

\* ------------------------------------------------------------------------
\* Portfolio logic and gain calculation
\* ------------------------------------------------------------------------
\* d[k] = v on a dict (the key is created when absent).
Put(d, k, v) == [x \in DOMAIN d \cup {k} |-> IF x = k THEN v ELSE d[x]]

\* A remove that leaves the list as it is.
RemoveNone(s, x) == s

\* list.remove(x): the list without its first element equal to x.
RECURSIVE RemoveFirst(_, _)
RemoveFirst(s, x) ==
    IF s = <<>> THEN <<>>
    ELSE IF Head(s) = x THEN Tail(s)
    ELSE <<Head(s)>> \o RemoveFirst(Tail(s), x)

\* FindReplacementFrom with a window that leaves out day 30 on either side.
RECURSIVE FindReplacementStrict(_, _, _)
FindReplacementStrict(loss_tx, all_transactions, k) ==
    IF k > Len(all_transactions) THEN 0
    ELSE LET tx == all_transactions[k]
         IN  IF /\ tx.type = "BUY"
                /\ similarity_key(tx.security_info) = similarity_key(loss_tx.security_info)
                /\ Abs(days_between(tx.date, loss_tx.date)) < WASH_WINDOW_DAYS
             THEN k
             ELSE FindReplacementStrict(loss_tx, all_transactions, k + 1)

\* The lot id of the first BUY of all_transactions, from position k on, with
\* the key of loss_tx and a date within the window; 0 is None.
RECURSIVE FindReplacementFrom(_, _, _)
FindReplacementFrom(loss_tx, all_transactions, k) ==
    IF k > Len(all_transactions) THEN 0
    ELSE LET tx == all_transactions[k]
         IN  IF /\ tx.type = "BUY"
                /\ similarity_key(tx.security_info) = similarity_key(loss_tx.security_info)
                /\ Abs(days_between(tx.date, loss_tx.date)) <= WASH_WINDOW_DAYS
             THEN k
             ELSE FindReplacementFrom(loss_tx, all_transactions, k + 1)

find_wash_sale_replacement_lot(loss_tx, all_transactions) ==
    FindReplacementFrom(loss_tx, all_transactions, 1)

\* ConsumeLots with the step-up applied to every lot, whatever its
\* acquisition date.
RECURSIVE ConsumeLotsStepUpAll(_, _, _, _, _, _)
ConsumeLotsStepUpAll(asset_id, ids, qty_remaining_to_sell, lt, lots_to_sell, sold_lot_info) ==
    IF ids = <<>> \/ qty_remaining_to_sell <= 0
    THEN [lot |-> lt, lots_to_sell |-> lots_to_sell, sold_lot_info |-> sold_lot_info]
    ELSE LET id == Head(ids)
             sell_qty == Min(lt[id].qty, qty_remaining_to_sell)
             recorded == lt[id].cost_basis_per_unit
             basis == Max(recorded, Get(FMV_31DEC2025, asset_id, recorded))
             lt2 == [lt EXCEPT ![id].qty = @ - sell_qty]
             rest == IF lt2[id].qty = 0 THEN RemoveFirst(lots_to_sell, id)
                     ELSE lots_to_sell
         IN  ConsumeLotsStepUpAll(asset_id, Tail(ids), qty_remaining_to_sell - sell_qty,
                                  lt2, rest,
                                  Append(sold_lot_info, [qty |-> sell_qty, basis |-> basis]))

\* The FIFO loop of realised_gain over the copy `ids` of the asset's list:
\* the lots, the asset's list and sold_lot_info it leaves.
RECURSIVE ConsumeLots(_, _, _, _, _, _)
ConsumeLots(asset_id, ids, qty_remaining_to_sell, lt, lots_to_sell, sold_lot_info) ==
    IF ids = <<>> \/ qty_remaining_to_sell <= 0
    THEN [lot |-> lt, lots_to_sell |-> lots_to_sell, sold_lot_info |-> sold_lot_info]
    ELSE LET id == Head(ids)
             sell_qty == Min(lt[id].qty, qty_remaining_to_sell)
             recorded == lt[id].cost_basis_per_unit
             basis == IF lt[id].acquired < CUTOFF_DATE
                      THEN Max(recorded, Get(FMV_31DEC2025, asset_id, recorded))
                      ELSE recorded
             lt2 == [lt EXCEPT ![id].qty = @ - sell_qty]
             rest == IF lt2[id].qty = 0 THEN RemoveFirst(lots_to_sell, id)
                     ELSE lots_to_sell
         IN  ConsumeLots(asset_id, Tail(ids), qty_remaining_to_sell - sell_qty, lt2,
                         rest, Append(sold_lot_info, [qty |-> sell_qty, basis |-> basis]))

\* realised_gain(tx, portfolio, all_transactions) on the lots lt: the value
\* returned or the exception raised, and the portfolio and lots left behind.
realised_gain(tx, pf, all_transactions, lt) ==
    LET interest_income == IF "interest_component" \in DOMAIN tx
                           THEN tx.interest_component ELSE 0
        tob_rate == Get(TOB_RATES, tx.tob_regime, 0)
        gross_proceeds == tx.qty * tx.price_per_unit
        sale_tob == MulDiv(gross_proceeds, tob_rate, 10000)
        capital_proceeds == gross_proceeds - interest_income - sale_tob
        held == Get(pf, tx.asset_id, <<>>)
        fifo == ConsumeLots(tx.asset_id, held, tx.qty, lt, held, <<>>)
        pf2 == Put(pf, tx.asset_id, fifo.lots_to_sell)
        avg_sale_price_per_unit == RDiv(capital_proceeds, tx.qty)
        raw == SumSeq([k \in DOMAIN fifo.sold_lot_info |->
                        (avg_sale_price_per_unit - fifo.sold_lot_info[k].basis)
                            * fifo.sold_lot_info[k].qty])
        replacement_lot == IF raw < 0
                           THEN find_wash_sale_replacement_lot(tx, all_transactions)
                           ELSE 0
    IN  IF replacement_lot = 0
        THEN [status |-> "running", gain |-> raw, raw_gain |-> raw,
              interest_income |-> interest_income, replacement_lot |-> 0,
              portfolio |-> pf2, lot |-> fifo.lot]
        ELSE IF fifo.lot[replacement_lot].qty = 0
        THEN [status |-> "ZeroDivisionError", gain |-> raw, raw_gain |-> raw,
              interest_income |-> interest_income, replacement_lot |-> replacement_lot,
              portfolio |-> pf2, lot |-> fifo.lot]
        ELSE [status |-> "running", gain |-> 0, raw_gain |-> raw,
              interest_income |-> interest_income, replacement_lot |-> replacement_lot,
              portfolio |-> pf2,
              lot |-> [fifo.lot EXCEPT ![replacement_lot].cost_basis_per_unit =
                          @ + RDiv(Abs(raw), fifo.lot[replacement_lot].qty)]]

\* ------------------------------------------------------------------------
\* Exit tax
\* ------------------------------------------------------------------------
\* The (asset, position) pairs of the lots a portfolio holds.
HeldPositions(pf) == UNION {{<<a, k>> : k \in DOMAIN pf[a]} : a \in DOMAIN pf}

\* The basis calculate_exit_tax uses for a lot l of asset a (FMV_31DEC2025
\* is subscripted, so the asset must be in the table for a pre-cutoff lot).
ExitBasis(a, l) ==
    IF l.acquired < CUTOFF_DATE THEN Max(l.cost, FMV_31DEC2025[a]) ELSE l.cost

\* SumExitGains without the test `gain > 0`: losses net against gains.
RECURSIVE SumExitGainsNetted(_, _, _, _)
SumExitGainsNetted(ps, pf, lt, exit_fmv) ==
    IF ps = {} THEN 0
    ELSE LET p == CHOOSE q \in ps : TRUE
             l == lt[pf[p[1]][p[2]]]
             basis == ExitBasis(p[1], l)
             fmv_per_unit == Get(exit_fmv, p[1], basis)
         IN  (fmv_per_unit - basis) * l.qty
                 + SumExitGainsNetted(ps \ {p}, pf, lt, exit_fmv)

\* unrealised_gains as the two loops of calculate_exit_tax accumulate it
\* over the held positions ps.
RECURSIVE SumExitGains(_, _, _, _)
SumExitGains(ps, pf, lt, exit_fmv) ==
    IF ps = {} THEN 0
    ELSE LET p == CHOOSE q \in ps : TRUE
             l == lt[pf[p[1]][p[2]]]
             basis == ExitBasis(p[1], l)
             fmv_per_unit == Get(exit_fmv, p[1], basis)
             gain == (fmv_per_unit - basis) * l.qty
         IN  (IF gain > 0 THEN gain ELSE 0)
                 + SumExitGains(ps \ {p}, pf, lt, exit_fmv)

\* calculate_exit_tax(portfolio, exit_date, fmv_on_date): the value returned
\* or the exception raised.
calculate_exit_tax(pf, exit_date, lt) ==
    IF "fmv_on_date" \in defaulted
    THEN [status |-> "TypeError:fmv_on_date", value |-> 0]
    ELSE IF exit_date \notin DOMAIN fmv_on_date
    THEN [status |-> "KeyError:fmv_on_date", value |-> 0]
    ELSE IF \E p \in HeldPositions(pf) :
                /\ lt[pf[p[1]][p[2]]].acquired < CUTOFF_DATE
                /\ p[1] \notin DOMAIN FMV_31DEC2025
    THEN [status |-> "KeyError:FMV_31DEC2025", value |-> 0]
    ELSE [status |-> "running",
          value |-> Round2(SumExitGains(HeldPositions(pf), pf, lt,
                                        fmv_on_date[exit_date]) * CGT_RATE)]

\* ------------------------------------------------------------------------
\* The orchestrator, phase 1: one action per transaction of the loop
\* ------------------------------------------------------------------------
InPhase1 == pc = "tx" /\ i <= Len(txs)

phase2_locals == <<all_years, yi, unused_exemption, exit_tax_amount, exit_taxed>>
yearly == <<realised_gains_by_year, interest_income_by_year, tax_due_by_year>>
tracker == <<carry, call>>
session == <<ncalls, run, first_result>>

\* line 244: a transaction dated before 2026 is passed over.
SkipPreCutoff ==
    /\ InPhase1
    /\ YearOf(txs[i].date) < CUTOFF_YEAR
    /\ i' = i + 1
    /\ UNCHANGED <<inputs, lot, portfolio, yearly, tracker, pc, phase2_locals,
                   status, session>>

\* Buy with the lot put at the head of the asset's list.
BuyAtHead ==
    /\ InPhase1
    /\ YearOf(txs[i].date) >= CUTOFF_YEAR
    /\ txs[i].type = "BUY"
    /\ portfolio' = Put(portfolio, txs[i].asset_id,
                        <<i>> \o Get(portfolio, txs[i].asset_id, <<>>))
    /\ i' = i + 1
    /\ UNCHANGED <<inputs, lot, yearly, tracker, pc, phase2_locals, status, session>>

\* lines 246-248: a BUY appends its lot to the asset's list.
Buy ==
    /\ InPhase1
    /\ YearOf(txs[i].date) >= CUTOFF_YEAR
    /\ txs[i].type = "BUY"
    /\ portfolio' = Put(portfolio, txs[i].asset_id,
                        Append(Get(portfolio, txs[i].asset_id, <<>>), i))
    /\ i' = i + 1
    /\ UNCHANGED <<inputs, lot, yearly, tracker, pc, phase2_locals, status, session>>

\* lines 249-254: a SELL goes through realised_gain.
Sell ==
    /\ InPhase1
    /\ YearOf(txs[i].date) >= CUTOFF_YEAR
    /\ txs[i].type = "SELL"
    /\ LET r == realised_gain(txs[i], portfolio, txs, lot)
           year == YearOf(txs[i].date)
       IN  /\ portfolio' = r.portfolio
           /\ lot' = r.lot
           /\ IF r.status = "running"
              THEN /\ realised_gains_by_year' =
                          Put(realised_gains_by_year, year,
                              Get(realised_gains_by_year, year, 0) + r.gain)
                   /\ interest_income_by_year' =
                          Put(interest_income_by_year, year,
                              Get(interest_income_by_year, year, 0) + r.interest_income)
                   /\ i' = i + 1
                   /\ UNCHANGED <<pc, status>>
              ELSE /\ status' = r.status
                   /\ pc' = "done"
                   /\ UNCHANGED <<realised_gains_by_year, interest_income_by_year, i>>
    /\ UNCHANGED <<inputs, tax_due_by_year, tracker, phase2_locals, session>>

\* lines 246-249: a type that is neither BUY nor SELL matches no branch.
SkipOther ==
    /\ InPhase1
    /\ YearOf(txs[i].date) >= CUTOFF_YEAR
    /\ txs[i].type \notin {"BUY", "SELL"}
    /\ i' = i + 1
    /\ UNCHANGED <<inputs, lot, portfolio, yearly, tracker, pc, phase2_locals,
                   status, session>>

\* sorted(list(S)) for a set of years.
RECURSIVE Sorted(_)
Sorted(S) ==
    IF S = {} THEN <<>>
    ELSE LET m == CHOOSE x \in S : \A y \in S : x <= y
         IN  <<m>> \o Sorted(S \ {m})

\* line 257: the years of phase 2 (residency_status.keys() fails on None).
EndPhase1 ==
    /\ pc = "tx"
    /\ i > Len(txs)
    /\ IF "residency_status" \in defaulted
       THEN /\ status' = "AttributeError:residency_status"
            /\ pc' = "done"
            /\ UNCHANGED all_years
       ELSE /\ all_years' = Sorted(DOMAIN realised_gains_by_year
                                       \cup DOMAIN residency_status)
            /\ pc' = IF all_years' = <<>> THEN "return" ELSE "year_tax"
            /\ UNCHANGED status
    /\ UNCHANGED <<inputs, lot, portfolio, yearly, tracker, i, yi, unused_exemption,
                   exit_tax_amount, exit_taxed, session>>

\* ------------------------------------------------------------------------
\* The orchestrator, phase 2: the loop body over all_years, in three steps
\* ------------------------------------------------------------------------
\* YearTax with the gain above the exemption taxed without the floor at 0.
YearTaxNoFloor ==
    /\ pc = "year_tax"
    /\ LET year == all_years[yi]
           interest_tax == Get(interest_income_by_year, year, 0) * INTEREST_RATE
           due1 == Get(tax_due_by_year, year, 0) + Round2(interest_tax)
           net_gain == Get(realised_gains_by_year, year, 0)
       IN  IF year \notin DOMAIN CPI
           THEN /\ tax_due_by_year' = Put(tax_due_by_year, year, due1)
                /\ status' = "KeyError:CPI"
                /\ pc' = "done"
                /\ UNCHANGED <<carry, call, unused_exemption>>
           ELSE LET a == available(carry, year, marital)
                    exempt == a.value
                    taxable_gain == net_gain - exempt
                IN  /\ tax_due_by_year' =
                           Put(tax_due_by_year, year,
                               due1 + Round2(taxable_gain * CGT_RATE))
                    /\ carry' = a.carry
                    /\ call' = [op |-> "available", year |-> year, carry_in |-> carry]
                    /\ unused_exemption' = Max(0, exempt - net_gain)
                    /\ pc' = "year_carry"
                    /\ UNCHANGED status
    /\ UNCHANGED <<inputs, lot, portfolio, realised_gains_by_year,
                   interest_income_by_year, i, all_years, yi, exit_tax_amount,
                   exit_taxed, session>>

\* lines 259-270: interest tax, available exemption, CGT, unused exemption.
YearTax ==
    /\ pc = "year_tax"
    /\ LET year == all_years[yi]
           interest_tax == Get(interest_income_by_year, year, 0) * INTEREST_RATE
           due1 == Get(tax_due_by_year, year, 0) + Round2(interest_tax)
           net_gain == Get(realised_gains_by_year, year, 0)
       IN  IF year \notin DOMAIN CPI
           THEN /\ tax_due_by_year' = Put(tax_due_by_year, year, due1)
                /\ status' = "KeyError:CPI"
                /\ pc' = "done"
                /\ UNCHANGED <<carry, call, unused_exemption>>
           ELSE LET a == available(carry, year, marital)
                    exempt == a.value
                    taxable_gain == Max(0, net_gain - exempt)
                IN  /\ tax_due_by_year' =
                           Put(tax_due_by_year, year,
                               due1 + Round2(taxable_gain * CGT_RATE))
                    /\ carry' = a.carry
                    /\ call' = [op |-> "available", year |-> year, carry_in |-> carry]
                    /\ unused_exemption' = Max(0, exempt - net_gain)
                    /\ pc' = "year_carry"
                    /\ UNCHANGED status
    /\ UNCHANGED <<inputs, lot, portfolio, realised_gains_by_year,
                   interest_income_by_year, i, all_years, yi, exit_tax_amount,
                   exit_taxed, session>>

\* YearCarry with a year whose successor has no CPI entry passed over.
YearCarryUnindexed ==
    /\ pc = "year_carry"
    /\ LET year == all_years[yi]
       IN  IF year + 1 \notin DOMAIN CPI
           THEN /\ pc' = "year_exit"
                /\ UNCHANGED <<carry, call, status>>
           ELSE /\ carry' = update_carry(carry, unused_exemption, year)
                /\ call' = [op |-> "update_carry", year |-> year, carry_in |-> carry,
                            unused |-> unused_exemption]
                /\ pc' = "year_exit"
                /\ UNCHANGED status
    /\ UNCHANGED <<inputs, lot, portfolio, yearly, i, phase2_locals, session>>

\* line 271: tracker.update_carry(unused_exemption, year).
YearCarry ==
    /\ pc = "year_carry"
    /\ LET year == all_years[yi]
       IN  IF year + 1 \notin DOMAIN CPI
           THEN /\ status' = "KeyError:CPI"
                /\ pc' = "done"
                /\ UNCHANGED <<carry, call>>
           ELSE /\ carry' = update_carry(carry, unused_exemption, year)
                /\ call' = [op |-> "update_carry", year |-> year, carry_in |-> carry,
                            unused |-> unused_exemption]
                /\ pc' = "year_exit"
                /\ UNCHANGED status
    /\ UNCHANGED <<inputs, lot, portfolio, yearly, i, phase2_locals, session>>

\* lines 274-280: the exit tax when residency changes, then the next year.
YearExit ==
    /\ pc = "year_exit"
    /\ LET year == all_years[yi]
           is_resident_start == Get(residency_status, year, Home) = Home
           is_resident_end == Get(residency_status, year + 1, Home) = Home
           next_pc == IF yi + 1 > Len(all_years) THEN "return" ELSE "year_tax"
           r == calculate_exit_tax(portfolio, year, lot)
       IN  IF is_resident_start /\ ~is_resident_end
           THEN IF r.status = "running"
                THEN /\ exit_tax_amount' = r.value
                     /\ tax_due_by_year' =
                            Put(tax_due_by_year, year,
                                Get(tax_due_by_year, year, 0) + r.value)
                     /\ exit_taxed' = exit_taxed \cup {year}
                     /\ yi' = yi + 1
                     /\ pc' = next_pc
                     /\ UNCHANGED status
                ELSE /\ status' = r.status
                     /\ pc' = "done"
                     /\ UNCHANGED <<exit_tax_amount, tax_due_by_year, exit_taxed, yi>>
           ELSE /\ yi' = yi + 1
                /\ pc' = next_pc
                /\ UNCHANGED <<exit_tax_amount, tax_due_by_year, exit_taxed, status>>
    /\ UNCHANGED <<inputs, lot, portfolio, realised_gains_by_year,
                   interest_income_by_year, tracker, i, all_years, unused_exemption,
                   session>>

\* line 282: return tax_due_by_year.
Return ==
    /\ pc = "return"
    /\ status' = "returned"
    /\ pc' = "done"
    /\ UNCHANGED <<inputs, lot, portfolio, yearly, tracker, i, phase2_locals, session>>

Next ==
    \/ SkipPreCutoff
    \/ Buy
    \/ Sell
    \/ SkipOther
    \/ EndPhase1
    \/ YearTax
    \/ YearCarry
    \/ YearExit
    \/ Return

Spec == Init /\ [][Next]_vars

\* ------------------------------------------------------------------------
\* A second run on the same records
\* ------------------------------------------------------------------------
\* belgian_cgt is called again with the arguments of the first call: its
\* locals (ledger, tracker, yearly maps) are fresh, the transaction records
\* and the lot objects attached to them are the caller's.
Rerun ==
    /\ pc = "done"
    /\ run = 1
    /\ run' = 2
    /\ first_result' = [status |-> status,
                        tax_due_by_year |-> IF status = "returned"
                                            THEN tax_due_by_year ELSE EmptyDict]
    /\ portfolio' = EmptyDict
    /\ realised_gains_by_year' = EmptyDict
    /\ interest_income_by_year' = EmptyDict
    /\ tax_due_by_year' = EmptyDict
    /\ carry' = 0
    /\ pc' = "tx"
    /\ i' = 1
    /\ all_years' = <<>>
    /\ yi' = 1
    /\ unused_exemption' = 0
    /\ exit_tax_amount' = 0
    /\ exit_taxed' = {}
    /\ status' = "running"
    /\ call' = NoCall
    /\ UNCHANGED <<inputs, lot, ncalls>>

NextRerun == Next \/ Rerun

SpecRerun == Init /\ [][NextRerun]_vars

\* ------------------------------------------------------------------------
\* The exemption tracker driven directly
\* ------------------------------------------------------------------------
TrackerYears == 2025..2028
TrackerUnused == {0, 400000, 1000000, 2500000}

InitTracker ==
    /\ txs = <<>>
    /\ marital = "single"
    /\ defaulted = {}
    /\ residency_status = EmptyDict
    /\ fmv_on_date = EmptyDict
    /\ FMV_31DEC2025 = EmptyDict
    /\ lot = LotsOf(txs)
    /\ FreshRun
    /\ ncalls = 0
    /\ run = 1
    /\ first_result = [status |-> "none", tax_due_by_year |-> EmptyDict]

\* tracker.available(year, m) on a tracker that has had ncalls calls.
CallAvailable ==
    /\ status = "running"
    /\ ncalls < MaxCalls
    /\ \E year \in TrackerYears, m \in {"single", "couple"} :
          /\ carry' = available(carry, year, m).carry
          /\ call' = [op |-> "available", year |-> year, carry_in |-> carry]
    /\ ncalls' = ncalls + 1
    /\ UNCHANGED <<inputs, lot, portfolio, yearly, pc, i, phase2_locals, status,
                   run, first_result>>

\* tracker.update_carry(unused, year); CPI has no entry after 2028.
CallUpdateCarry ==
    /\ status = "running"
    /\ ncalls < MaxCalls
    /\ \E year \in TrackerYears, unused \in TrackerUnused :
          IF year + 1 \notin DOMAIN CPI
          THEN /\ status' = "KeyError:CPI"
               /\ UNCHANGED <<carry, call>>
          ELSE /\ carry' = update_carry(carry, unused, year)
               /\ call' = [op |-> "update_carry", year |-> year, carry_in |-> carry,
                           unused |-> unused]
               /\ UNCHANGED status
    /\ ncalls' = ncalls + 1
    /\ UNCHANGED <<inputs, lot, portfolio, yearly, pc, i, phase2_locals, run,
                   first_result>>

NextTracker == CallAvailable \/ CallUpdateCarry

SpecTracker == InitTracker /\ [][NextTracker]_vars

\* ------------------------------------------------------------------------
\* Vocabulary of the properties
\* ------------------------------------------------------------------------
\* The next step of the run is the SELL txs[i] going through realised_gain.
AtSell ==
    /\ InPhase1
    /\ YearOf(txs[i].date) >= CUTOFF_YEAR
    /\ txs[i].type = "SELL"

\* What realised_gain does with that SELL.
SaleOutcome == realised_gain(txs[i], portfolio, txs, lot)

\* BUY k is of a security similar to that of tx, within 30 days of tx.
InWashWindow(k, tx) ==
    /\ txs[k].type = "BUY"
    /\ similarity_key(txs[k].security_info) = similarity_key(tx.security_info)
    /\ txs[k].date - tx.date <= 30
    /\ tx.date - txs[k].date <= 30

BuyIds == {k \in DOMAIN txs : txs[k].type = "BUY"}

\* Total quantity of the lots the ledger holds for an asset.
HeldQty(a) ==
    LET ids == Get(portfolio, a, <<>>)
    IN  SumSeq([k \in DOMAIN ids |-> lot[ids[k]].qty])

\* Quantity of the in-scope transactions of a type and asset among txs[1..n].
RECURSIVE QtyUpTo(_, _, _)
QtyUpTo(n, type, a) ==
    IF n = 0 THEN 0
    ELSE QtyUpTo(n - 1, type, a)
         + (IF /\ txs[n].type = type
               /\ txs[n].asset_id = a
               /\ YearOf(txs[n].date) >= CUTOFF_YEAR
            THEN txs[n].qty ELSE 0)

ScenarioA == << BuyTx("X", 4, 10, 100000, 4), SellTx("X", 31, 10, 90000, "standard") >>
ScenarioB == Append(ScenarioA, BuyTx("X", 50, 5, 95000, 50))

\* ------------------------------------------------------------------------
\* Properties
\* ------------------------------------------------------------------------
\* C1: a SELL whose computed gain is negative and that has a similar BUY
\* within 30 days returns gain 0, and a replacement lot in the window has its
\* basis per unit raised by exactly |loss| / its quantity; in Scenario B the
\* replacement is the 2026-02-20 lot and its basis becomes 115.63.
C1_WashSaleDefersLoss ==
    [][ (/\ AtSell
         /\ SaleOutcome.raw_gain < 0
         /\ \E k \in BuyIds : InWashWindow(k, txs[i]))
        => LET year == YearOf(txs[i].date)
               loss == Abs(SaleOutcome.raw_gain)
           IN  /\ status' = "running"
               /\ realised_gains_by_year'[year] = Get(realised_gains_by_year, year, 0)
               /\ \E k \in BuyIds :
                     /\ InWashWindow(k, txs[i])
                     /\ lot'[k].qty > 0
                     /\ lot'[k].cost_basis_per_unit =
                            lot[k].cost_basis_per_unit + RDiv(loss, lot'[k].qty)
               /\ txs = ScenarioB => lot'[3].cost_basis_per_unit = 115630 ]_vars

\* C2: a loss-making SELL with no similar BUY within 30 days other than the
\* purchases of the units it sells returns the negative gain and changes no
\* lot's basis; in Scenario A the returned gain is -103.15.
C2_LossWithoutReplacementStands ==
    [][ (/\ AtSell
         /\ SaleOutcome.raw_gain < 0
         /\ \A k \in BuyIds : InWashWindow(k, txs[i]) => lot'[k].qty < lot[k].qty)
        => LET year == YearOf(txs[i].date)
           IN  /\ status' = "running"
               /\ realised_gains_by_year'[year] =
                      Get(realised_gains_by_year, year, 0) + SaleOutcome.raw_gain
               /\ \A k \in BuyIds :
                      lot'[k].cost_basis_per_unit = lot[k].cost_basis_per_unit
               /\ txs = ScenarioA => realised_gains_by_year'[2026] = -103150 ]_vars

\* The asset's list holds its lots in the order of their BUY records.
InAcquisitionOrder(a) ==
    LET ids == Get(portfolio, a, <<>>)
    IN  \A j, k \in DOMAIN ids :
            j < k => /\ ids[j] < ids[k]
                     /\ txs[ids[j]].date <= txs[ids[k]].date

\* C3: each SELL takes quantity only from the oldest remaining lots of its
\* asset (a younger lot loses quantity only once every older lot is used up,
\* and no other asset's lot loses any), and after every transaction each
\* asset's surviving lots are in acquisition order.
C3_FifoOrder ==
    /\ [](\A a \in Assets : InAcquisitionOrder(a))
    /\ [][ AtSell =>
            LET a == txs[i].asset_id
                before == Get(portfolio, a, <<>>)
                after == portfolio'[a]
            IN  /\ \E n \in 0..Len(before) :
                      /\ after = SubSeq(before, n + 1, Len(before))
                      /\ \A k \in 1..n : lot'[before[k]].qty = 0
                /\ \A k \in DOMAIN before :
                      lot'[before[k]].qty < lot[before[k]].qty
                          => \A j \in 1..(k - 1) : lot'[before[j]].qty = 0
                /\ \A k \in BuyIds :
                      lot'[k].qty # lot[k].qty => \E j \in DOMAIN before : before[j] = k
          ]_vars

\* A sale has used up the oldest lot of an asset and part of the next one,
\* which now heads the asset's list.
C3_Witness ==
    \E a \in DOMAIN portfolio : \E j, k \in BuyIds :
        /\ j < k
        /\ j < i /\ k < i
        /\ txs[j].asset_id = a /\ txs[k].asset_id = a
        /\ YearOf(txs[j].date) >= CUTOFF_YEAR
        /\ lot[j].qty = 0
        /\ 0 < lot[k].qty /\ lot[k].qty < txs[k].qty
        /\ portfolio[a] # <<>> /\ Head(portfolio[a]) = k

\* C4: after every transaction, for every asset the quantity held in the
\* ledger is the quantity of the in-scope BUYs processed minus that of the
\* in-scope SELLs processed.
C4_HeldIsBuysMinusSells ==
    status \in {"running", "returned"} =>
        \A a \in Assets :
            HeldQty(a) = QtyUpTo(i - 1, "BUY", a) - QtyUpTo(i - 1, "SELL", a)

\* C5: a SELL of more than the ledger holds for its asset fails with
\* InsufficientLotQuantity, which ends the run.
C5_OversellFails ==
    [][ (AtSell /\ txs[i].qty > HeldQty(txs[i].asset_id))
        => (status' = "InsufficientLotQuantity" /\ pc' = "done") ]_vars

\* C6: once clamp_carry(year) has run, as it does at the start of every
\* available(year, marital), the carry is at most
\* per_person_cap(year) - annual_base(year).
C6_CarryWithinCap ==
    call.op = "available" =>
        carry <= per_person_cap(call.year) - annual_base(call.year)

\* An available call found a carry above the year's bound and lowered it.
C6_Witness ==
    /\ call.op = "available"
    /\ call.carry_in > carry
    /\ carry = per_person_cap(call.year) - annual_base(call.year)

\* Year y starts with the taxpayer resident at home and y + 1 does not.
Departure(y) ==
    /\ Get(residency_status, y, Home) = Home
    /\ Get(residency_status, y + 1, Home) # Home

\* C7: for every year Y with home residency at Y (explicit or by default)
\* and residency elsewhere at Y + 1, a completed run has computed the exit
\* tax and added it to year Y's tax due.
C7_ExitTaxOnEveryDeparture ==
    status = "returned" =>
        \A y \in 2024..2029 :
            Departure(y) => (y \in exit_taxed /\ y \in DOMAIN tax_due_by_year)

\* The unrealised gain of the lot at position k of asset a's list, valued
\* at the prices fmv, floored at zero.
PositiveGain(a, k, fmv) ==
    LET l == lot[portfolio[a][k]]
        basis == ExitBasis(a, l)
    IN  Max(0, (Get(fmv, a, basis) - basis) * l.qty)

\* The sum of PositiveGain over the lots of all assets.
PositiveGainTotal(fmv) ==
    LET OfAsset(a) == IF a \in DOMAIN portfolio
                      THEN SumSeq([k \in DOMAIN portfolio[a] |-> PositiveGain(a, k, fmv)])
                      ELSE 0
    IN  OfAsset("X") + OfAsset("Y") + OfAsset("Z")

\* The year whose exit tax the run has computed.
ExitYear == CHOOSE y \in exit_taxed : TRUE

\* C8: the exit tax computed is round(CGT rate x S, 2), S being the sum over
\* the held lots of max(0, (exit FMV - basis) x quantity), so a lot below
\* water never lowers it; holding 10 units of basis 50 valued at 80 gives
\* 30.00.
C8_ExitTaxSumsPositiveGains ==
    exit_taxed # {} =>
        /\ exit_tax_amount =
               Round2(CGT_RATE * PositiveGainTotal(fmv_on_date[ExitYear]))
        /\ (/\ Get(portfolio, "Y", <<>>) # <<>>
            /\ lot[portfolio["Y"][1]].qty = 10
            /\ ExitBasis("Y", lot[portfolio["Y"][1]]) = 50000
            /\ Len(portfolio["Y"]) = 1
            /\ Get(fmv_on_date[ExitYear], "Y", 0) = 80000
            /\ \A a \in DOMAIN portfolio \ {"Y"} : \A k \in DOMAIN portfolio[a] :
                   PositiveGain(a, k, fmv_on_date[ExitYear]) = 0)
           => exit_tax_amount = 30000

\* An exit tax of 30.00 was charged on 10 units of Y (basis 50, valued at
\* 80) while a lot of X valued below its basis was held as well.
C8_Witness ==
    /\ exit_taxed # {}
    /\ exit_tax_amount = 30000
    /\ Get(portfolio, "Y", <<>>) # <<>>
    /\ lot[portfolio["Y"][1]].qty = 10
    /\ ExitBasis("Y", lot[portfolio["Y"][1]]) = 50000
    /\ Get(portfolio, "X", <<>>) # <<>>
    /\ LET l == lot[portfolio["X"][1]]
       IN  (Get(fmv_on_date[ExitYear], "X", 0) - ExitBasis("X", l)) * l.qty < 0

\* The exit date of year y has no fair-market value for asset a.
NoExitFmv(a, y) ==
    \/ "fmv_on_date" \in defaulted
    \/ y \notin DOMAIN fmv_on_date
    \/ a \notin DOMAIN fmv_on_date[y]

\* C9: when the exit tax is due and no exit-date FMV is supplied for the
\* held assets (asset missing from the date's table, date missing from the
\* table, or no table at all), the valuation does not fail for lack of it
\* and the lots contribute zero gain.
C9_MissingFmvIsNoError ==
    [][ (/\ pc = "year_exit"
         /\ Departure(all_years[yi])
         /\ \A a \in DOMAIN portfolio : NoExitFmv(a, all_years[yi]))
        => /\ status' \notin {"TypeError:fmv_on_date", "KeyError:fmv_on_date"}
           /\ status' = "running" => exit_tax_amount' = 0 ]_vars

\* C10: when a run of belgian_cgt has returned, a second run on the same
\* records and tables returns the same year -> tax mapping.
C10_SecondRunAgrees ==
    (run = 2 /\ pc = "done" /\ first_result.status = "returned") =>
        /\ status = "returned"
        /\ tax_due_by_year = first_result.tax_due_by_year

\* The lots the SELL txs[i] is about to consume, in order, with the basis
\* realised_gain uses for each.
SoldLotInfo ==
    LET held == Get(portfolio, txs[i].asset_id, <<>>)
    IN  ConsumeLots(txs[i].asset_id, held, txs[i].qty, lot, held, <<>>).sold_lot_info

\* C11: in realised_gain, the effective basis of a consumed lot acquired
\* before the cutoff date is max(recorded basis, step-up FMV of the asset)
\* when the asset has a step-up FMV and the recorded basis when it has none,
\* so never below the recorded basis; for a lot acquired on or after the
\* cutoff date it is the recorded basis.
C11_StepUpBasis ==
    AtSell =>
        LET a == txs[i].asset_id
            held == Get(portfolio, a, <<>>)
        IN  \A k \in DOMAIN SoldLotInfo :
                LET l == lot[held[k]]
                    recorded == l.cost_basis_per_unit
                    effective == SoldLotInfo[k].basis
                IN  /\ effective >= recorded
                    /\ (l.acquired < CUTOFF_DATE /\ a \in DOMAIN FMV_31DEC2025)
                           => effective = IF FMV_31DEC2025[a] > recorded
                                          THEN FMV_31DEC2025[a] ELSE recorded
                    /\ (l.acquired < CUTOFF_DATE /\ a \notin DOMAIN FMV_31DEC2025)
                           => effective = recorded
                    /\ l.acquired >= CUTOFF_DATE => effective = recorded

\* A sale is consuming a lot acquired before the cutoff date whose recorded
\* basis is below the step-up FMV of its asset, after an earlier sale has
\* taken units of that lot.
C11_Witness ==
    /\ AtSell
    /\ SoldLotInfo # <<>>
    /\ LET a == txs[i].asset_id
           l == lot[Head(portfolio[a])]
       IN  /\ l.acquired < CUTOFF_DATE
           /\ a \in DOMAIN FMV_31DEC2025
           /\ FMV_31DEC2025[a] > l.cost_basis_per_unit
           /\ SoldLotInfo[1].basis = FMV_31DEC2025[a]
           /\ l.qty < txs[Head(portfolio[a])].qty

\* C12: an in-scope transaction (dated in the cutoff year or later) whose
\* type is neither BUY nor SELL makes the run fail with
\* InvalidTransactionType and end; it is never passed over.
C12_UnknownTypeFails ==
    [][ (/\ InPhase1
         /\ YearOf(txs[i].date) >= CUTOFF_YEAR
         /\ txs[i].type \notin {"BUY", "SELL"})
        => (status' = "InvalidTransactionType" /\ pc' = "done" /\ i' = i) ]_vars

\* BUY k is in scope and the loop has processed it.
Appended(k) ==
    /\ k \in BuyIds
    /\ k < i
    /\ YearOf(txs[k].date) >= CUTOFF_YEAR

\* Lot k is in the list of its asset.
InLedger(k) ==
    LET ids == Get(portfolio, txs[k].asset_id, <<>>)
    IN  \E j \in DOMAIN ids : ids[j] = k

\* C13: after every transaction every lot in the ledger has quantity > 0 and
\* a lot that entered the ledger is absent from it exactly when its quantity
\* is zero; in every step no lot's quantity increases and no lot's cost
\* basis per unit decreases.
C13_LotsShrinkBasisGrows ==
    /\ [](\A k \in BuyIds :
             /\ InLedger(k) => (Appended(k) /\ lot[k].qty > 0)
             /\ Appended(k) => (InLedger(k) <=> lot[k].qty > 0))
    /\ [][ \A k \in BuyIds :
             /\ lot'[k].qty <= lot[k].qty
             /\ lot'[k].cost_basis_per_unit >= lot[k].cost_basis_per_unit ]_vars

\* One lot has been sold down to zero and is out of the ledger while a lot
\* still held carries a basis above its purchase cost, and another held lot
\* has lost part of its quantity.
C13_Witness ==
    \E j, k, m \in BuyIds :
        /\ Appended(j) /\ lot[j].qty = 0 /\ ~InLedger(j)
        /\ InLedger(k) /\ lot[k].cost_basis_per_unit > lot[k].cost
        /\ InLedger(m) /\ lot[m].qty < txs[m].qty

\* The ledger and the lots after the phase-1 loop has processed txs[k..n],
\* starting from the ledger pf and the lots lt (lines 243-254; a sale that
\* raises leaves what it had done).
RECURSIVE Replay(_, _, _, _)
Replay(k, n, pf, lt) ==
    IF k > n THEN [portfolio |-> pf, lot |-> lt]
    ELSE LET tx == txs[k]
         IN  IF YearOf(tx.date) < CUTOFF_YEAR THEN Replay(k + 1, n, pf, lt)
             ELSE IF tx.type = "BUY"
             THEN Replay(k + 1, n,
                         Put(pf, tx.asset_id, Append(Get(pf, tx.asset_id, <<>>), k)), lt)
             ELSE IF tx.type = "SELL"
             THEN LET r == realised_gain(tx, pf, txs, lt)
                  IN  IF r.status = "running"
                      THEN Replay(k + 1, n, r.portfolio, r.lot)
                      ELSE [portfolio |-> r.portfolio, lot |-> r.lot]
             ELSE Replay(k + 1, n, pf, lt)

\* The ledger and the lots as they stand at the end of year y: the
\* transactions dated up to that year processed on fresh lots.
AtYearEnd(y) ==
    LET n == Cardinality({k \in DOMAIN txs : YearOf(txs[k].date) <= y})
    IN  Replay(1, n, EmptyDict, LotsOf(txs))

\* C14: the exit tax added to year Y is the one computed from the lots held
\* at the end of year Y; transactions dated after Y do not change it.
C14_ExitTaxFromYearEndLots ==
    exit_taxed # {} =>
        LET h == AtYearEnd(ExitYear)
            r == calculate_exit_tax(h.portfolio, ExitYear, h.lot)
        IN  r.status = "running" => exit_tax_amount = r.value

\* The basis realised_gain uses for a lot l of asset a (lines 165-167).
EffectiveBasis(a, l) ==
    LET recorded == l.cost_basis_per_unit
    IN  IF l.acquired < CUTOFF_DATE
        THEN Max(recorded, Get(FMV_31DEC2025, a, recorded))
        ELSE recorded

\* C15: when calculate_exit_tax values the held lots, the basis it uses for
\* each lot is the one realised_gain would use for it: the lot's current cost
\* basis per unit, deferred losses included, raised to the step-up FMV for a
\* pre-cutoff lot whose asset has one; an asset without a step-up FMV makes
\* no failure.
C15_ExitBasisIsSaleBasis ==
    [][ (/\ pc = "year_exit"
         /\ Departure(all_years[yi])
         /\ "fmv_on_date" \notin defaulted
         /\ all_years[yi] \in DOMAIN fmv_on_date)
        => /\ status' # "KeyError:FMV_31DEC2025"
           /\ \A p \in HeldPositions(portfolio) :
                  LET l == lot[portfolio[p[1]][p[2]]]
                  IN  ExitBasis(p[1], l) = EffectiveBasis(p[1], l) ]_vars

\* The BUYs of txs that match the sale tx: similar security, dated at most
\* 30 days before or after it.
Matches(tx) == {k \in DOMAIN txs : InWashWindow(k, tx)}

\* C16: find_wash_sale_replacement_lot returns the lot of the first
\* transaction of the list that is a BUY of a similar security dated at most
\* 30 days before or after the sale (day 30 included, day 31 not), also
\* when a later one of the list is nearer in time, and none when the list
\* has no such transaction.
C16_FirstMatchInListOrder ==
    \A s \in DOMAIN txs :
        txs[s].type = "SELL" =>
            LET r == find_wash_sale_replacement_lot(txs[s], txs)
            IN  IF Matches(txs[s]) = {}
                THEN r = 0
                ELSE /\ r \in Matches(txs[s])
                     /\ \A k \in Matches(txs[s]) : r <= k

\* A loss-making sale has deferred its loss onto the lot of the first
\* matching BUY of the list although a matching BUY further down the list is
\* nearer in time to the sale.
C16_Witness ==
    \E s \in DOMAIN txs :
        /\ txs[s].type = "SELL"
        /\ s < i
        /\ YearOf(txs[s].date) >= CUTOFF_YEAR
        /\ LET r == find_wash_sale_replacement_lot(txs[s], txs)
           IN  /\ r # 0
               /\ lot[r].cost_basis_per_unit > lot[r].cost
               /\ \E k \in Matches(txs[s]) :
                     /\ k > r
                     /\ Abs(txs[k].date - txs[s].date) < Abs(txs[r].date - txs[s].date)

\* The year the loop of phase 2 is at.
CurrentYear == all_years[yi]

\* The exemption available(year, marital) grants when called with the
\* tracker as it stands.
Exemption == available(carry, CurrentYear, marital).value

\* C17: when the run finalizes a year, the CGT added to the year's tax is
\* round(10% x max(0, net gain - available(year, marital)), 2): 0 for a net
\* gain at or below the exemption, a net loss included; and no year's tax
\* due is negative (the interest income of the inputs is never negative).
C17_CgtOnGainAboveExemption ==
    /\ [][ (pc = "year_tax" /\ CurrentYear \in DOMAIN CPI) =>
            LET year == CurrentYear
                net == Get(realised_gains_by_year, year, 0)
                interest == Round2(Get(interest_income_by_year, year, 0) * 30)
                cgt == tax_due_by_year'[year] - Get(tax_due_by_year, year, 0) - interest
            IN  /\ net <= Exemption => cgt = 0
                /\ net > Exemption => cgt = Round2((net - Exemption) * 10)
                /\ cgt >= 0 ]_vars
    /\ [](\A y \in DOMAIN tax_due_by_year : tax_due_by_year[y] >= 0)

\* A year has just been charged CGT on a net gain above its exemption, after
\* an earlier year of net loss was charged none.
C17_Witness ==
    /\ pc = "year_carry"
    /\ Get(realised_gains_by_year, CurrentYear, 0) > 0
    /\ tax_due_by_year[CurrentYear] >
           Round2(Get(interest_income_by_year, CurrentYear, 0) * 30)
    /\ \E y \in DOMAIN tax_due_by_year :
           /\ y < CurrentYear
           /\ Get(realised_gains_by_year, y, 0) < 0
           /\ tax_due_by_year[y] = 0

\* The least of three numbers.
Min3(a, b, c) == IF a <= b /\ a <= c THEN a ELSE IF b <= c THEN b ELSE c

\* C18: an update_carry(unused, year) call with unused >= 0 raises the carry
\* by at most min(CARRY_INCREMENT, unused), so by at most 1000 and by nothing
\* when the exemption was fully used, leaves it at most
\* per_person_cap(year + 1) - annual_base(year + 1), and the carry it leaves
\* is min(carry + min(CARRY_INCREMENT, unused, nextCap - carry), nextCap).
C18_CarryIncrementBounded ==
    (call.op = "update_carry" /\ call.unused >= 0) =>
        LET before == call.carry_in
            nextCap == per_person_cap(call.year + 1) - annual_base(call.year + 1)
        IN  /\ carry - before <= 1000000
            /\ carry - before <= call.unused
            /\ carry <= nextCap
            /\ LET increment == Min3(1000000, call.unused, nextCap - before)
               IN  carry = IF before + increment <= nextCap
                           THEN before + increment ELSE nextCap

\* An update_carry call with more than 1000 unused has raised the carry by
\* exactly 1000.
C18_Witness ==
    /\ call.op = "update_carry"
    /\ call.unused > 1000000
    /\ carry = call.carry_in + 1000000

\* C19: whenever realised_gain defers a loss (the sale's gain becomes 0),
\* the lot that receives the loss has quantity > 0 and is in the ledger or
\* enters it later in the run: it is not the lot the sale has just used up,
\* nor the lot of a BUY dated before the cutoff year, which the loop never
\* adds to the ledger.
C19_DeferredLossLandsOnLedgerLot ==
    [][ (/\ AtSell
         /\ SaleOutcome.raw_gain < 0
         /\ SaleOutcome.replacement_lot # 0
         /\ status' = "running")
        => LET r == SaleOutcome.replacement_lot
           IN  /\ lot'[r].qty > 0
               /\ YearOf(txs[r].date) >= CUTOFF_YEAR
               /\ r < i => \E k \in DOMAIN portfolio'[txs[r].asset_id] :
                               portfolio'[txs[r].asset_id][k] = r ]_vars

\* The years of the shipped CPI table.
CpiYears == 2025..2028

\* The run is in the loop of phase 2, or has left it.
InPhase2 == all_years # <<>> /\ pc \in {"year_tax", "year_carry", "year_exit"}

\* C20: the run finalizes a year Y of all_years without a missing-CPI
\* failure only if the CPI table has Y and Y + 1 (update_carry(unused, Y)
\* indexes Y + 1); the failure ends the run, which returns no tax for any
\* year, those already finalized included; with the table 2025-2028 no run
\* that comes to finalize 2028 returns.
C20_CpiNeededForYearAndNext ==
    /\ [](/\ (InPhase2 /\ pc = "year_exit")
              => (CurrentYear \in CpiYears /\ CurrentYear + 1 \in CpiYears)
          /\ InPhase2
              => \A k \in 1..(yi - 1) :
                     (all_years[k] \in CpiYears /\ all_years[k] + 1 \in CpiYears)
          /\ status = "returned"
              => \A k \in DOMAIN all_years :
                     (all_years[k] \in CpiYears /\ all_years[k] + 1 \in CpiYears)
          /\ status = "KeyError:CPI" => pc = "done")
    /\ [][ /\ (pc = "year_tax" /\ CurrentYear \notin CpiYears)
               => (status' = "KeyError:CPI" /\ pc' = "done")
           /\ (pc = "year_carry" /\ CurrentYear + 1 \notin CpiYears)
               => (status' = "KeyError:CPI" /\ pc' = "done")
           /\ status = "KeyError:CPI" => status' = "KeyError:CPI" ]_vars

\* The run has ended on the missing CPI entry for 2029 while finalizing
\* 2028, after it had finalized an earlier year with tax due.
C20_Witness ==
    /\ status = "KeyError:CPI"
    /\ pc = "done"
    /\ all_years # <<>>
    /\ CurrentYear = 2028
    /\ \E k \in 1..(yi - 1) : Get(tax_due_by_year, all_years[k], 0) > 0

====
